---- MODULE Spec2Model ----
(***************************************************************************)
(* Model of auto_sqlServerBackup.py: the polling loop of main(), the job   *)
(* registered with the schedule library, and the steps of perform_backup() *)
(* with their try/except structure.                                        *)
(*                                                                         *)
(* Time is counted in clock units of eight hours; unit 0                   *)
(* starts a Monday at 00:00.  A reading of the clock that yields unit t    *)
(* lies strictly inside the unit: datetime.now() has microsecond           *)
(* resolution, the instants the library compares it with (next_run after   *)
(* replace(second=0, microsecond=0)) lie on unit boundaries.               *)
(***************************************************************************)
EXTENDS Integers, Sequences, FiniteSets, TLC

VARIABLES
    now,        \* wall clock, in units
    mainPc,     \* position of main(): "start", "run_pending", "in_job", "sleep", "crashed"
    next_run,   \* Job.next_run of the registered job (a unit boundary), None before line 162
    last_run,   \* Job.last_run, None until a run has returned
    jobPc,      \* position inside perform_backup
    active,     \* number of perform_backup frames entered and not yet left
    exc,        \* exception in flight inside perform_backup (the `e` of line 152)
    connection, \* the object bound to `connection`: "unbound", "open", "closed"
    artifact,   \* backup file written by the BACKUP DATABASE statement of this run, or None
    backup_dir, \* local backup_dir of perform_backup
    sent,       \* calls of send_email_notification made in this run, in order
    delivered,  \* number of messages the transport accepted in this run
    failedStep, \* the step of this run that raised, "none" if none did
    calls,      \* how often each step was invoked in this run
    log,        \* tags of the log lines written in this run
    fires,      \* per weekly occurrence, how often the job was started (saturating)
    fired_at,   \* <<t>>: the clock reading of the poll that last started the job, None before
    previous,   \* how the run before the current one ended: <<a step failed, a notification was delivered>>, None before
    epoch,      \* the date of clock unit 0
    fs,         \* the filesystem under the backup base directory
    locals,     \* the names bound in the frame of the current perform_backup
    obstructed, \* create_backup_directory of this run met a non-directory segment or a refusal
    dir_results \* the results of successive calls of create_backup_directory (SpecDir)

vars == <<now, mainPc, next_run, last_run, jobPc, active, exc, connection,
          artifact, backup_dir, sent, delivered, failedStep, calls, log, fires, fired_at, previous,
          epoch, fs, locals, obstructed, dir_results>>

jobVars == <<jobPc, exc, connection, artifact, backup_dir, sent, delivered,
             failedStep, calls, log, locals, obstructed>>

\* what no step of main() or perform_backup changes, and the filesystem
envVars == <<epoch, dir_results>>

---------------------------------------------------------------------------
(* Bounds of the model *)

MaxWeeks == 2
MaxDelay == 2
MaxCount == 2

---------------------------------------------------------------------------
(* Values *)

\* None; an instant t held by a field of the job is <<t>>
None == <<>>
NoExc == "none"

\* schedule.every().friday.at("08:00"): the weekday tuple of the library and
\* the unit of the day that starts at 08:00
weekdays == <<"monday", "tuesday", "wednesday", "thursday", "friday", "saturday", "sunday">>
start_day == "friday"

\* the clock units of a day, by the time of day at which each starts; the
\* configured "08:00" is one of them
units == <<"00:00", "08:00", "16:00">>
UnitsPerDay == Len(units)
at_time == (CHOOSE i \in 1..Len(units) : units[i] = "08:00") - 1

\* configuration of perform_backup, lines 122-131
database == "YOUR_DATABASE"
base_dir == "/path/to/backup"
notify_email == "recipient@example.com"

Steps == {"create_backup_directory", "connect_to_sql_server", "backup_database", "close"}

\* the error each step raises, as the text that str(e) gives
ErrorOf(step) ==
    CASE step = "create_backup_directory" -> "FilesystemError"
      [] step = "connect_to_sql_server"   -> "ConnectionError"
      [] step = "backup_database"         -> "BackupExecutionError"
      [] step = "close"                   -> "CloseError"
      [] OTHER                            -> NoExc

TransportError == "TransportError"
UnboundLocalError == "UnboundLocalError"

\* the assignments of lines 122-131 with `database` left to a later statement
ConfigNames_without_database ==
    {"server", "username", "password", "backup_dir", "notify_email",
     "smtp_server", "smtp_port", "smtp_user", "smtp_password"}

\* the names bound by lines 122-131, before the first call of the try block
ConfigNames ==
    {"server", "database", "username", "password", "backup_dir", "notify_email",
     "smtp_server", "smtp_port", "smtp_user", "smtp_password"}

\* the names the success branch reads, lines 147-150
SuccessNames ==
    {"notify_email", "database", "backup_path", "smtp_user", "smtp_server", "smtp_port",
     "smtp_password"}

\* the names the handler reads, lines 154-157
HandlerNames ==
    {"notify_email", "database", "smtp_user", "smtp_server", "smtp_port", "smtp_password"}

Min(a, b) == IF a < b THEN a ELSE b

period == Len(weekdays) * UnitsPerDay
MaxTime == MaxWeeks * period

---------------------------------------------------------------------------
(* The clock and the job of the schedule library *)

weekday(t) == (t \div UnitsPerDay) % Len(weekdays)

\* weekdays.index(start_day), counted from 0 as Python does
start_day_index == (CHOOSE i \in 1..Len(weekdays) : weekdays[i] = start_day) - 1

\* schedule_next_run with `days_ahead < 0` in place of `days_ahead <= 0`: on
\* the start day itself the job is rescheduled for the same day
schedule_next_run_same_day(t) ==
    LET nr0 == t + period
        d0 == start_day_index - weekday(nr0)
        days_ahead == IF d0 < 0 THEN d0 + Len(weekdays) ELSE d0
        nr1 == nr0 + days_ahead * UnitsPerDay - period
        nr2 == (nr1 \div UnitsPerDay) * UnitsPerDay + at_time
    IN  IF nr2 - t > period THEN nr2 - period ELSE nr2

\* Job._schedule_next_run() for unit "weeks", interval 1, a start_day and an
\* at_time, with the clock reading t:
\*   next_run = now + period
\*   days_ahead = weekday - next_run.weekday(); if days_ahead <= 0: += 7
\*   next_run += timedelta(days_ahead) - period
\*   next_run = next_run.replace(hour, minute, second=0, microsecond=0)
\*   if (next_run - now).days >= 7: next_run -= period
\* The reading lies strictly inside unit t, so a difference of 7 whole days
\* needs more than `period` units between t and the boundary.
schedule_next_run(t) ==
    LET nr0 == t + period
        d0 == start_day_index - weekday(nr0)
        days_ahead == IF d0 <= 0 THEN d0 + Len(weekdays) ELSE d0
        nr1 == nr0 + days_ahead * UnitsPerDay - period
        nr2 == (nr1 \div UnitsPerDay) * UnitsPerDay + at_time
    IN  IF nr2 - t > period THEN nr2 - period ELSE nr2

\* should_run that compares dates only: the job is due from the start of its day
should_run_whole_day(t, nr) == nr # None /\ t \div UnitsPerDay >= nr[1] \div UnitsPerDay

\* Job.should_run: datetime.now() >= self.next_run
should_run(t, nr) == nr # None /\ t >= nr[1]

\* the weekly occurrence of the rule a clock reading belongs to: the number of
\* Fridays 08:00 that have begun
occurrence(t) ==
    Cardinality({u \in 0..t : weekday(u) = start_day_index /\ u % UnitsPerDay = at_time})

Occurrences == 0..(MaxWeeks + 1)

---------------------------------------------------------------------------
(* The pure parts of perform_backup and its callees *)

\* Calendar dates, as datetime.date counts them
IsLeap(y) == (y % 4 = 0 /\ y % 100 # 0) \/ y % 400 = 0

DaysInMonth(y, m) ==
    IF m = 2 THEN (IF IsLeap(y) THEN 29 ELSE 28)
    ELSE IF m \in {4, 6, 9, 11} THEN 30
    ELSE 31

\* (an argument is bound through a one-element set where it is used more
\* than once, so that it is evaluated once)
NextDay(date) ==
    CHOOSE next \in
        {IF d.day < DaysInMonth(d.year, d.month) THEN [d EXCEPT !.day = @ + 1]
         ELSE IF d.month < 12 THEN [d EXCEPT !.month = @ + 1, !.day = 1]
         ELSE [year |-> d.year + 1, month |-> 1, day |-> 1] : d \in {date}} : TRUE

RECURSIVE AddDays(_, _)
AddDays(d, n) == IF n = 0 THEN d ELSE AddDays(NextDay(d), n - 1)

\* datetime.date.today() when the clock reads t; e is the date of unit 0
today(e, t) == AddDays(e, t \div UnitsPerDay)

\* str(n) for n >= 0, as the sequence of its decimal digits
Digits == <<"0", "1", "2", "3", "4", "5", "6", "7", "8", "9">>

RECURSIVE str(_)
str(n) == IF n < 10 THEN <<Digits[n + 1]>> ELSE Append(str(n \div 10), Digits[(n % 10) + 1])

\* str.zfill(width) without the padding
zfill_none(digits, width) == digits

\* str.zfill(width)
RECURSIVE zfill(_, _)
zfill(digits, width) ==
    IF Len(digits) >= width THEN digits ELSE zfill(<<"0">> \o digits, width)

\* os.path.join(path, name): a path is the sequence of its components
join(path, name) == Append(path, name)

\* lines 66-68
year_dir(base, d) == join(base, str(d.year))
month_dir(base, d) == join(year_dir(base, d), zfill(str(d.month), 2))
day_dir(base, d) == join(month_dir(base, d), zfill(str(d.day), 2))

\* The filesystem: a function from the paths that exist to "dir" or "file".
\* os.path.exists(path)
exists(f, path) == path \in DOMAIN f

\* os.path.split(path)[0]
head(path) == SubSeq(path, 1, Len(path) - 1)

\* os.mkdir(path): the new filesystem, or the OSError it raises; `denied`
\* says that the filesystem refuses to create directories
mkdir(files, path, denied) ==
    CHOOSE result \in
        {IF exists(f, path) THEN [fs |-> f, err |-> "FileExistsError"]
         ELSE IF Len(path) > 1 /\ ~exists(f, head(path)) THEN [fs |-> f, err |-> "FileNotFoundError"]
         ELSE IF Len(path) > 1 /\ f[head(path)] # "dir" THEN [fs |-> f, err |-> "NotADirectoryError"]
         ELSE IF denied THEN [fs |-> f, err |-> "PermissionError"]
         ELSE [fs |-> [q \in DOMAIN f \cup {path} |-> IF q = path THEN "dir" ELSE f[q]],
               err |-> NoExc] : f \in {files}} : TRUE

\* os.makedirs(path): creates the missing ancestors, then the directory
RECURSIVE makedirs(_, _, _)
makedirs(f, path, denied) ==
    IF Len(path) > 1 /\ ~exists(f, head(path))
    THEN CHOOSE result \in
             {IF up.err \in {NoExc, "FileExistsError"} THEN mkdir(up.fs, path, denied) ELSE up :
                 up \in {makedirs(f, head(path), denied)}} : TRUE
    ELSE mkdir(f, path, denied)

\* create_backup_directory(base_dir) called on date d, lines 63-75: the new
\* filesystem, the OSError raised (NoExc: none) and the path returned
create_backup_directory(f, base, d, denied) ==
    LET \* one round of the loop of lines 70-73
        step(before, dir) ==
            CHOOSE result \in
                {IF acc.err # NoExc \/ exists(acc.fs, dir) THEN acc
                 ELSE makedirs(acc.fs, dir, denied) : acc \in {before}} : TRUE
    IN  CHOOSE result \in
            {[fs |-> r.fs, err |-> r.err,
              path |-> IF r.err = NoExc THEN day_dir(base, d) ELSE None] :
                r \in {step(step(step([fs |-> f, err |-> NoExc], year_dir(base, d)),
                                 month_dir(base, d)), day_dir(base, d))}} : TRUE

\* datetime.datetime.now().strftime('%Y%m%d_%H%M%S') of line 83: the digits of
\* the date, and the time of day to the precision of the clock
strftime(e, t) ==
    <<str(today(e, t).year) \o zfill(str(today(e, t).month), 2) \o zfill(str(today(e, t).day), 2),
      "_", units[(t % UnitsPerDay) + 1]>>

\* backup_database, lines 83-85: the file name and the path of the artifact
backup_path(dir, db, timestamp) == join(dir, <<db, "_backup_", timestamp, ".bak">>)

\* lines 148-149
success_message(db, path) ==
    [subject |-> <<"Backup Success: ", db>>,
     body    |-> <<"Backup of database ", db, " completed successfully. Backup file: ", path>>]

\* failure_message with the subject of the success branch
failure_message_success_subject(db, e) ==
    [subject |-> <<"Backup Success: ", db>>,
     body    |-> <<"An error occurred during the backup of database ", db, ". Error: ", e>>]

\* lines 155-156
failure_message(db, e) ==
    [subject |-> <<"Backup Failed: ", db>>,
     body    |-> <<"An error occurred during the backup of database ", db, ". Error: ", e>>]

\* a handler at line 152 that names one error class and misses the others
Catches152_narrow(e) == e \in {ErrorOf("backup_database")}

\* `except Exception` of line 152: every error the steps raise is an
\* Exception, and so is the error of reading an unbound name
Catches152(e) == e \in {ErrorOf(s) : s \in Steps} \cup {TransportError, UnboundLocalError}

\* send_email_notification without its handler
Catches115_none(e) == FALSE

\* `except Exception` of line 115 in send_email_notification
Catches115(e) == e \in {TransportError}

\* send_email_notification whose handler logs and re-raises, as the handlers
\* of connect_to_sql_server and backup_database do
send_email_notification_reraise(ok) ==
    IF ok THEN [raised |-> NoExc, logged |-> "Email notification sent successfully."]
    ELSE [raised |-> TransportError, logged |-> "Failed to send email notification"]

\* send_email_notification(subject, body, ...): what leaves the call when the
\* transport accepts the message (ok) or fails
send_email_notification(ok) ==
    IF ok THEN [raised |-> NoExc, logged |-> "Email notification sent successfully."]
    ELSE IF Catches115(TransportError)
         THEN [raised |-> NoExc, logged |-> "Failed to send email notification"]
         ELSE [raised |-> TransportError, logged |-> "none"]

\* the try block with the notification placed before connection.close()
NextStep_notify_first(pc) ==
    CASE pc = "Preparing"        -> "Connecting"
      [] pc = "Connecting"       -> "BackingUp"
      [] pc = "BackingUp"        -> "NotifyingSuccess"
      [] pc = "NotifyingSuccess" -> "Closing"
      [] pc = "Closing"          -> "Returning"

\* The statement order of the try block, lines 133-150
NextStep(pc) ==
    CASE pc = "Preparing"        -> "Connecting"
      [] pc = "Connecting"       -> "BackingUp"
      [] pc = "BackingUp"        -> "Closing"
      [] pc = "Closing"          -> "NotifyingSuccess"
      [] pc = "NotifyingSuccess" -> "Returning"

\* TryNext with the directory step outside the try block's control: its
\* error is dropped and the run goes on
TryNext_ignore_preparing(pc, e) ==
    IF e = NoExc \/ pc = "Preparing" THEN NextStep(pc)
    ELSE IF Catches152(e) THEN "NotifyingFailure"
    ELSE "Returning"

\* TryNext with a retry: a failed backup statement is issued again
TryNext_retry_backup(pc, e) ==
    IF e = NoExc THEN NextStep(pc)
    ELSE IF pc = "BackingUp" THEN "BackingUp"
    ELSE IF Catches152(e) THEN "NotifyingFailure"
    ELSE "Returning"

\* TryNext with the connect outside the try block: its error leaves
\* perform_backup without reaching the handler
TryNext_connect_outside_try(pc, e) ==
    IF e = NoExc THEN NextStep(pc)
    ELSE IF pc = "Connecting" THEN "Returning"
    ELSE IF Catches152(e) THEN "NotifyingFailure"
    ELSE "Returning"

\* Where control goes after a statement of the try block that raised e
\* (NoExc: it completed): on, to the handler of line 152, or out of the
\* function with the exception in flight
TryNext(pc, e) ==
    IF e = NoExc THEN NextStep(pc)
    ELSE IF Catches152(e) THEN "NotifyingFailure"
    ELSE "Returning"

NoCalls == [s \in Steps |-> 0]
Called(step) == [calls EXCEPT ![step] = Min(@ + 1, MaxCount)]

\* time.sleep(60) of line 167: a minute is shorter than a clock unit, so the
\* clock reading after the sleep is in the same unit or in the next
sleep_units == 1

\* The durations of the blocking external calls.  A call on the filesystem
\* or the mail transport ends within the clock unit or in the next; a call on
\* the database takes up to MaxDelay units, and the BACKUP statement, which
\* has no timeout, may also take a whole week.
ShortDelays == 0..sleep_units
Delays == 0..MaxDelay
LongDelays == Delays \cup {period}

\* a blocking call takes d units of time
Elapse(d) == now + d <= MaxTime /\ now' = now + d

---------------------------------------------------------------------------
(* Initial state: the process has started, main() has not yet run line 162 *)

\* Clock unit 0 starts Monday 2024-12-23 at 00:00: the first weeks of the
\* clock cross the end of a month and of a year
Epoch == [year |-> 2024, month |-> 12, day |-> 23]

\* the date of the first Friday of the clock
FirstDueDate(e) == AddDays(e, start_day_index)

\* What the process may find on disk: the base directory absent or present,
\* and below it a chain of the segments of date d, the last of which is a
\* directory or a file
InitialFilesystems(base, d) ==
    LET chain == <<base, year_dir(base, d), month_dir(base, d), day_dir(base, d)>>
        upto(n, last) == [q \in {chain[i] : i \in 1..n} |-> IF q = chain[n] THEN last ELSE "dir"]
        empty == [q \in {} |-> "dir"]
    IN  {empty} \cup {upto(n, "dir") : n \in 1..4} \cup {upto(n, "file") : n \in 2..4}

Init ==
    /\ now \in 0..(period - 1)
    /\ mainPc = "start"
    /\ next_run = None
    /\ last_run = None
    /\ jobPc = "Idle"
    /\ active = 0
    /\ exc = NoExc
    /\ connection = "unbound"
    /\ artifact = None
    /\ backup_dir = <<base_dir>>
    /\ sent = <<>>
    /\ delivered = 0
    /\ failedStep = "none"
    /\ calls = NoCalls
    /\ log = {}
    /\ fires = [o \in Occurrences |-> 0]
    /\ fired_at = None
    /\ previous = None
    /\ epoch = Epoch
    /\ fs \in InitialFilesystems(<<base_dir>>, FirstDueDate(Epoch))
    /\ obstructed = FALSE
    /\ locals = {}
    /\ dir_results = <<>>

---------------------------------------------------------------------------
(* main() *)

\* line 162: schedule.every().friday.at("08:00").do(perform_backup)
ScheduleJob ==
    /\ mainPc = "start"
    /\ next_run' = <<schedule_next_run(now)>>
    /\ mainPc' = "run_pending"
    /\ UNCHANGED <<now, last_run, active, fires, fired_at, previous, epoch, dir_results, fs>>
    /\ UNCHANGED jobVars

\* run_pending() that starts a due job without waiting for it
RunPending_async ==
    /\ mainPc = "run_pending"
    /\ IF should_run(now, next_run)
       THEN /\ active' = Min(active + 1, MaxCount)
            /\ fires' = [fires EXCEPT ![occurrence(now)] = Min(@ + 1, MaxCount)]
            /\ fired_at' = <<now>>
            /\ previous' = IF last_run = None THEN None ELSE <<failedStep # "none", delivered > 0>>
            /\ jobPc' = "Preparing"
            /\ exc' = NoExc
            /\ connection' = "unbound"
            /\ artifact' = None
            /\ backup_dir' = <<base_dir>>
            /\ sent' = <<>>
            /\ delivered' = 0
            /\ failedStep' = "none"
            /\ calls' = NoCalls
            /\ log' = {}
            /\ obstructed' = FALSE
            /\ locals' = ConfigNames
       ELSE /\ UNCHANGED <<active, fires, fired_at, previous>>
            /\ UNCHANGED jobVars
    /\ mainPc' = "sleep"
    /\ UNCHANGED <<now, next_run, last_run, epoch, dir_results, fs>>

\* line 166: schedule.run_pending().  A due job is called synchronously:
\* main() is inside the call until perform_backup has returned.  Entering
\* perform_backup creates a fresh frame (lines 122-131 bind the configuration).
RunPending ==
    /\ mainPc = "run_pending"
    /\ IF should_run(now, next_run)
       THEN /\ mainPc' = "in_job"
            /\ active' = Min(active + 1, MaxCount)
            /\ fires' = [fires EXCEPT ![occurrence(now)] = Min(@ + 1, MaxCount)]
            /\ fired_at' = <<now>>
            /\ previous' = IF last_run = None THEN None ELSE <<failedStep # "none", delivered > 0>>
            /\ jobPc' = "Preparing"
            /\ exc' = NoExc
            /\ connection' = "unbound"
            /\ artifact' = None
            /\ backup_dir' = <<base_dir>>
            /\ sent' = <<>>
            /\ delivered' = 0
            /\ failedStep' = "none"
            /\ calls' = NoCalls
            /\ log' = {}
            /\ obstructed' = FALSE
            /\ locals' = ConfigNames
       ELSE /\ mainPc' = "sleep"
            /\ UNCHANGED <<active, fires, fired_at, previous>>
            /\ UNCHANGED jobVars
    /\ UNCHANGED <<now, next_run, last_run, epoch, dir_results, fs>>

\* line 167: time.sleep(60)
Sleep ==
    /\ mainPc = "sleep"
    /\ \E d \in 0..sleep_units : Elapse(d)
    /\ mainPc' = "run_pending"
    /\ UNCHANGED <<next_run, last_run, active, fires, fired_at, previous, epoch, dir_results, fs>>
    /\ UNCHANGED jobVars

---------------------------------------------------------------------------
(* perform_backup() *)

\* The segments of the day's path that exist as something other than a directory
NonDirectorySegments(f, base, d) ==
    {q \in {year_dir(base, d), month_dir(base, d), day_dir(base, d)} :
        exists(f, q) /\ f[q] # "dir"}

\* line 134: backup_dir = create_backup_directory(backup_dir).  The date is
\* read on entry (line 65); an OSError of os.makedirs leaves the function.
CreateBackupDirectory ==
    /\ jobPc = "Preparing"
    /\ \E d \in ShortDelays, denied \in BOOLEAN, date \in {today(epoch, now)} :
        \E r \in {create_backup_directory(fs, backup_dir, date, denied)} :
            /\ Elapse(d)
            /\ calls' = Called("create_backup_directory")
            /\ fs' = r.fs
            /\ exc' = IF r.err = NoExc THEN NoExc ELSE ErrorOf("create_backup_directory")
            /\ failedStep' = IF r.err = NoExc THEN failedStep ELSE "create_backup_directory"
            /\ backup_dir' = IF r.err = NoExc THEN r.path ELSE backup_dir
            /\ obstructed' = \/ NonDirectorySegments(fs, backup_dir, date) # {}
                             \/ r.err = "PermissionError"
            /\ jobPc' = TryNext("Preparing", exc')
    /\ UNCHANGED <<mainPc, next_run, last_run, active, fires, fired_at, previous,
                   epoch, dir_results, connection, artifact, sent, delivered, log, locals>>

\* connect_to_sql_server whose handler logs the error and does not re-raise:
\* the call returns None and the run goes on
ConnectToSqlServer_noraise ==
    /\ jobPc = "Connecting"
    /\ \E d \in Delays, ok \in BOOLEAN :
        /\ Elapse(d)
        /\ calls' = Called("connect_to_sql_server")
        /\ exc' = NoExc
        /\ failedStep' = IF ok THEN failedStep ELSE "connect_to_sql_server"
        /\ connection' = IF ok THEN "open" ELSE connection
        /\ locals' = IF ok THEN locals \cup {"connection"} ELSE locals
        /\ log' = log \cup {IF ok THEN "Connected to SQL Server successfully."
                                  ELSE "Failed to connect to SQL Server"}
        /\ jobPc' = TryNext("Connecting", exc')
    /\ UNCHANGED <<mainPc, next_run, last_run, active, fires, fired_at, previous, epoch, dir_results, fs,
                   artifact, backup_dir, obstructed, sent, delivered>>

\* line 137: connection = connect_to_sql_server(...); lines 54-61 log the
\* error and re-raise it
ConnectToSqlServer ==
    /\ jobPc = "Connecting"
    /\ \E d \in Delays, ok \in BOOLEAN :
        /\ Elapse(d)
        /\ calls' = Called("connect_to_sql_server")
        /\ exc' = IF ok THEN NoExc ELSE ErrorOf("connect_to_sql_server")
        /\ failedStep' = IF ok THEN failedStep ELSE "connect_to_sql_server"
        /\ connection' = IF ok THEN "open" ELSE connection
        /\ locals' = IF ok THEN locals \cup {"connection"} ELSE locals
        /\ log' = log \cup {IF ok THEN "Connected to SQL Server successfully."
                                  ELSE "Failed to connect to SQL Server"}
        /\ jobPc' = TryNext("Connecting", exc')
    /\ UNCHANGED <<mainPc, next_run, last_run, active, fires, fired_at, previous, epoch, dir_results, fs,
                   artifact, backup_dir, obstructed, sent, delivered>>

\* line 140: backup_path = backup_database(connection, database, backup_dir);
\* lines 79-99: the timestamp is read, the statement executed, an error is
\* logged and re-raised
BackupDatabase ==
    /\ jobPc = "BackingUp"
    /\ \E d \in LongDelays, ok \in BOOLEAN :
        /\ Elapse(d)
        /\ calls' = Called("backup_database")
        /\ exc' = IF ok THEN NoExc ELSE ErrorOf("backup_database")
        /\ failedStep' = IF ok THEN failedStep ELSE "backup_database"
        /\ artifact' = IF ok THEN backup_path(backup_dir, database, strftime(epoch, now)) ELSE artifact
        /\ locals' = IF ok THEN locals \cup {"backup_path"} ELSE locals
        /\ log' = log \cup {IF ok THEN "Backup completed successfully."
                                  ELSE "Failed to back up the database"}
        /\ jobPc' = TryNext("BackingUp", exc')
    /\ UNCHANGED <<mainPc, next_run, last_run, active, fires, fired_at, previous, epoch, dir_results, fs,
                   connection, backup_dir, obstructed, sent, delivered>>

\* lines 143-144: connection.close()
CloseConnection ==
    /\ jobPc = "Closing"
    /\ \E ok \in BOOLEAN :
        /\ calls' = Called("close")
        /\ exc' = IF ok THEN NoExc ELSE ErrorOf("close")
        /\ failedStep' = IF ok THEN failedStep ELSE "close"
        /\ connection' = IF ok THEN "closed" ELSE connection
        /\ log' = IF ok THEN log \cup {"Database connection closed."} ELSE log
        /\ jobPc' = TryNext("Closing", exc')
    /\ UNCHANGED <<now, mainPc, next_run, last_run, active, fires, fired_at, previous, epoch, dir_results, fs,
                   artifact, backup_dir, obstructed, locals, sent, delivered>>

\* lines 147-150: the success notification, still inside the try block.
\* Reading a name that is not bound raises UnboundLocalError.
NotifySuccess ==
    /\ jobPc = "NotifyingSuccess"
    /\ IF ~(SuccessNames \subseteq locals)
       THEN /\ exc' = UnboundLocalError
            /\ jobPc' = TryNext("NotifyingSuccess", UnboundLocalError)
            /\ UNCHANGED <<now, sent, delivered, log, locals>>
       ELSE IF notify_email # ""
       THEN \E d \in ShortDelays, ok \in BOOLEAN :
                LET r == send_email_notification(ok) IN
                /\ Elapse(d)
                /\ locals' = locals \cup {"subject", "body"}
                /\ sent' = Append(sent, success_message(database, artifact))
                /\ delivered' = IF ok THEN delivered + 1 ELSE delivered
                /\ log' = log \cup {r.logged}
                /\ exc' = r.raised
                /\ jobPc' = TryNext("NotifyingSuccess", r.raised)
       ELSE /\ jobPc' = TryNext("NotifyingSuccess", NoExc)
            /\ UNCHANGED <<now, sent, delivered, log, exc, locals>>
    /\ UNCHANGED <<mainPc, next_run, last_run, active, fires, fired_at, previous, epoch, dir_results, fs,
                   connection, artifact, backup_dir, obstructed, failedStep, calls>>

\* lines 152-157: the handler binds e, logs the error and sends the failure
\* notification; an exception raised inside the handler, by the send or by
\* reading a name that is not bound, leaves perform_backup
HandleException ==
    /\ jobPc = "NotifyingFailure"
    /\ IF ~(HandlerNames \subseteq locals)
       THEN /\ exc' = UnboundLocalError
            /\ log' = log \cup {"An error occurred"}
            /\ locals' = locals \cup {"e"}
            /\ UNCHANGED <<now, sent, delivered>>
       ELSE IF notify_email # ""
       THEN \E d \in ShortDelays, ok \in BOOLEAN :
                LET r == send_email_notification(ok) IN
                /\ Elapse(d)
                /\ locals' = locals \cup {"e", "subject", "body"}
                /\ sent' = Append(sent, failure_message(database, exc))
                /\ delivered' = IF ok THEN delivered + 1 ELSE delivered
                /\ log' = log \cup {"An error occurred", r.logged}
                /\ exc' = r.raised
       ELSE /\ log' = log \cup {"An error occurred"}
            /\ exc' = NoExc
            /\ locals' = locals \cup {"e"}
            /\ UNCHANGED <<now, sent, delivered>>
    /\ jobPc' = "Returning"
    /\ UNCHANGED <<mainPc, next_run, last_run, active, fires, fired_at, previous, epoch, dir_results, fs,
                   connection, artifact, backup_dir, obstructed, failedStep, calls>>

\* perform_backup is left.  Returning normally, Job.run() records last_run
\* and reschedules the job, run_pending() returns and main() goes on to line
\* 167; an exception in flight passes through run_pending() and main(),
\* neither of which catches it.
JobReturn ==
    /\ jobPc = "Returning"
    /\ jobPc' = "Idle"
    /\ active' = active - 1
    /\ IF exc # NoExc
       THEN /\ mainPc' = "crashed"
            /\ UNCHANGED <<next_run, last_run>>
       ELSE /\ mainPc' = "sleep"
            /\ last_run' = <<now>>
            /\ next_run' = <<schedule_next_run(now)>>
    /\ UNCHANGED <<now, fires, fired_at, previous, epoch, dir_results, fs, exc, connection, artifact, backup_dir, obstructed, locals, sent,
                   delivered, failedStep, calls, log>>

Next ==
    \/ ScheduleJob
    \/ RunPending
    \/ Sleep
    \/ CreateBackupDirectory
    \/ ConnectToSqlServer
    \/ BackupDatabase
    \/ CloseConnection
    \/ NotifySuccess
    \/ HandleException
    \/ JobReturn

Spec == Init /\ [][Next]_vars

---------------------------------------------------------------------------
(* Properties *)

\* a run of perform_backup has reached its end (and no later run has begun)
RunOver ==
    \/ jobPc = "Returning"
    \/ jobPc = "Idle" /\ calls["create_backup_directory"] > 0

Polling == mainPc \in {"run_pending", "sleep"}

SuccessSubject == <<"Backup Success: ", database>>
FailureSubject == <<"Backup Failed: ", database>>

\* C1: in every run of perform_backup, whichever step succeeds or fails,
\* never more than one notification send is attempted, and when the run is
\* over exactly one has been attempted.
C1_ExactlyOneNotification ==
    /\ Len(sent) <= 1
    /\ RunOver => Len(sent) = 1

\* a run in which the close of the connection raised has ended with one send
C1_Witness ==
    /\ jobPc = "Idle"
    /\ failedStep = "close"
    /\ Len(sent) = 1

\* C2: whenever a connection was opened in a run, it is closed before
\* perform_backup returns, on every exit path.
C2_ConnectionClosedOnReturn ==
    RunOver => connection # "open"

\* C3: the notification of a run matches its outcome: no step raised -> the
\* success subject and a body holding the artifact path; a step raised -> the
\* failure subject and a body holding the error text of that step.
C3_NotificationMatchesOutcome ==
    \A i \in 1..Len(sent) :
        IF failedStep = "none"
        THEN /\ sent[i].subject = SuccessSubject
             /\ artifact # None
             /\ sent[i].body[4] = artifact
        ELSE /\ sent[i].subject = FailureSubject
             /\ sent[i].body[4] = ErrorOf(failedStep)

\* a failure notification for a failed backup statement has been sent
C3_Witness ==
    /\ failedStep = "backup_database"
    /\ Len(sent) = 1
    /\ sent[1].subject = FailureSubject

\* C4: no error of a step leaves perform_backup: the run ends with no
\* exception in flight, main() never crashes, and after a failed run main()
\* is in its polling loop.
C4_ErrorsDoNotPropagate ==
    /\ mainPc # "crashed"
    /\ (jobPc = "Returning" /\ failedStep # "none") => exc = NoExc
    /\ (jobPc = "Idle" /\ failedStep # "none") => Polling

\* main() polls again after a run whose connect failed
C4_Witness ==
    /\ jobPc = "Idle"
    /\ failedStep = "connect_to_sql_server"
    /\ mainPc = "run_pending"

\* C5: when the transport fails in send_email_notification, the error is
\* logged and swallowed: nothing is raised, no second send is attempted, the
\* run ends and main() keeps polling.
C5_TransportFailureSwallowed ==
    delivered < Len(sent) =>
        /\ exc = NoExc
        /\ "Failed to send email notification" \in log
        /\ Len(sent) = 1
        /\ jobPc \in {"Returning", "Idle"}
        /\ mainPc # "crashed"
        /\ jobPc = "Idle" => Polling

\* the success notification of a run failed to be delivered and main() polls
C5_Witness ==
    /\ failedStep = "none"
    /\ Len(sent) = 1
    /\ delivered = 0
    /\ jobPc = "Idle"
    /\ mainPc = "run_pending"

\* C6: if create_backup_directory fails, connect_to_sql_server and
\* backup_database are not invoked in that run, and control is at the failure
\* notification (or past it) with the directory error as the reason.
C6_FailFastOnDirectory ==
    failedStep = "create_backup_directory" =>
        /\ calls["connect_to_sql_server"] = 0
        /\ calls["backup_database"] = 0
        /\ jobPc \in {"NotifyingFailure", "Returning", "Idle"}
        /\ jobPc = "NotifyingFailure" => exc = ErrorOf("create_backup_directory")
        /\ \A i \in 1..Len(sent) :
               sent[i] = failure_message(database, ErrorOf("create_backup_directory"))

\* the directory step failed and the failure notification went out
C6_Witness ==
    /\ failedStep = "create_backup_directory"
    /\ jobPc = "Idle"
    /\ Len(sent) = 1

\* C7: if connect_to_sql_server fails, backup_database is not invoked and no
\* artifact is produced, one failure notification with the connection error
\* is attempted, and main() keeps polling.
C7_ConnectFailure ==
    failedStep = "connect_to_sql_server" =>
        /\ calls["backup_database"] = 0
        /\ artifact = None
        /\ Len(sent) <= 1
        /\ RunOver => sent = <<failure_message(database, ErrorOf("connect_to_sql_server"))>>
        /\ mainPc # "crashed"
        /\ jobPc = "Idle" => Polling

\* the connect failed, the run is over and main() sleeps before its next poll
C7_Witness ==
    /\ failedStep = "connect_to_sql_server"
    /\ jobPc = "Idle"
    /\ mainPc = "sleep"
    /\ Len(sent) = 1

\* C8: when the backup statement succeeded, the connection is closed before
\* the notification step begins: at the success notification, and once a
\* success notification has been sent, the connection is closed.
C8_ClosedBeforeSuccessNotification ==
    /\ jobPc = "NotifyingSuccess" => (connection = "closed" /\ calls["close"] = 1)
    /\ \A i \in 1..Len(sent) :
           sent[i].subject = SuccessSubject => connection = "closed"

\* control is at the success notification with the connection closed
C8_Witness ==
    /\ jobPc = "NotifyingSuccess"
    /\ artifact # None
    /\ connection = "closed"

\* C9: at most one execution of perform_backup is in progress, and main()
\* evaluates a poll tick only when none is: while a run is in progress main()
\* is inside run_pending().
C9_SingleFlight ==
    /\ active <= 1
    /\ active = (IF jobPc = "Idle" THEN 0 ELSE 1)
    /\ jobPc # "Idle" => mainPc = "in_job"

\* a run that took at least two clock units since it was started is still
\* the only one, with main() waiting for it
C9_Witness ==
    /\ jobPc = "Returning"
    /\ mainPc = "in_job"
    /\ active = 1
    /\ artifact # None
    /\ now >= fired_at[1] + 2

\* C10: perform_backup is started at most once per weekly occurrence of the
\* rule, and after a run the job is due next at the Friday 08:00 that follows
\* the end of the run.
C10_NoDuplicateFiring ==
    /\ \A o \in Occurrences : fires[o] <= 1
    /\ next_run # None =>
           /\ weekday(next_run[1]) = start_day_index
           /\ next_run[1] % UnitsPerDay = at_time
    /\ last_run # None =>
           /\ next_run[1] > last_run[1]
           /\ next_run[1] - last_run[1] <= period

\* two consecutive occurrences have each fired once and main() polls again
C10_Witness ==
    /\ fires[1] = 1
    /\ fires[2] = 1
    /\ jobPc = "Idle"
    /\ mainPc = "run_pending"
    /\ ~should_run(now, next_run)

C13_NoInternalRetry ==
    /\ \A st \in Steps : calls[st] <= 1
    /\ artifact # None => calls["backup_database"] = 1

\* a run whose backup statement failed is over after one attempt of each step
C13_Witness ==
    /\ RunOver
    /\ failedStep = "backup_database"
    /\ calls["create_backup_directory"] = 1
    /\ calls["connect_to_sql_server"] = 1
    /\ calls["backup_database"] = 1

---------------------------------------------------------------------------
(* Progress: the single thread of main() takes its next step, every external
   call returns or raises, and the clock does not stop for good between two
   polls *)

Fairness ==
    /\ WF_vars(ScheduleJob)
    /\ WF_vars(RunPending)
    /\ WF_vars(Sleep)
    /\ SF_vars(Sleep /\ now' > now)
    /\ WF_vars(CreateBackupDirectory)
    /\ WF_vars(ConnectToSqlServer)
    /\ WF_vars(BackupDatabase)
    /\ WF_vars(CloseConnection)
    /\ WF_vars(NotifySuccess)
    /\ WF_vars(HandleException)
    /\ WF_vars(JobReturn)

FairSpec == Init /\ [][Next]_vars /\ Fairness

\* the Fridays 08:00 within the modelled clock
OccurrenceInstants ==
    {f \in 0..MaxTime : weekday(f) = start_day_index /\ f % UnitsPerDay = at_time}

---------------------------------------------------------------------------
(* create_backup_directory on its own: the function is called twice on one
   date, from any of the initial filesystems *)

DirYears == {1999, 2024}
DirDays == {1, 9, 10, 28}
DirDates == {[year |-> y, month |-> m, day |-> d] : y \in DirYears, m \in 1..12, d \in DirDays}

DirInit ==
    /\ now = 0
    /\ epoch \in DirDates
    /\ fs \in InitialFilesystems(<<base_dir>>, epoch)
    /\ dir_results = <<>>
    /\ mainPc = "create_backup_directory"
    /\ next_run = None
    /\ last_run = None
    /\ jobPc = "Idle"
    /\ active = 0
    /\ exc = NoExc
    /\ connection = "unbound"
    /\ artifact = None
    /\ backup_dir = <<base_dir>>
    /\ sent = <<>>
    /\ delivered = 0
    /\ failedStep = "none"
    /\ calls = NoCalls
    /\ log = {}
    /\ fires = [o \in Occurrences |-> 0]
    /\ fired_at = None
    /\ previous = None
    /\ obstructed = FALSE
    /\ locals = {}

\* one call of create_backup_directory(base_dir), lines 63-75
DirCall ==
    /\ mainPc = "create_backup_directory"
    /\ Len(dir_results) < MaxCount
    /\ \E denied \in BOOLEAN, date \in {today(epoch, now)} :
        \E r \in {create_backup_directory(fs, <<base_dir>>, date, denied)} :
            /\ fs' = r.fs
            /\ dir_results' = Append(dir_results,
                   [date |-> date, before |-> fs, after |-> r.fs, err |-> r.err, path |-> r.path])
    /\ UNCHANGED <<now, mainPc, next_run, last_run, active, fires, fired_at, previous, epoch>>
    /\ UNCHANGED jobVars

DirNext == DirCall

SpecDir == DirInit /\ [][DirNext]_vars

\* int(s) for a sequence of decimal digits
RECURSIVE int(_)
int(digits) ==
    IF digits = <<>> THEN 0
    ELSE 10 * int(SubSeq(digits, 1, Len(digits) - 1))
         + (CHOOSE v \in 0..9 : Digits[v + 1] = digits[Len(digits)])

\* C14: a call of create_backup_directory that returns, returns
\* base/YYYY/MM/DD of its date with a two-digit month and day; and after a call
\* that returned, a second call on the same date returns the same path, raises
\* nothing and leaves the directory tree as it was.
C14_PathAndIdempotence ==
    /\ \A i \in 1..Len(dir_results) :
           LET r == dir_results[i] IN
           r.err = NoExc =>
               /\ Len(r.path) = 4
               /\ r.path[1] = base_dir
               /\ int(r.path[2]) = r.date.year
               /\ Len(r.path[3]) = 2 /\ int(r.path[3]) = r.date.month
               /\ Len(r.path[4]) = 2 /\ int(r.path[4]) = r.date.day
    /\ (Len(dir_results) >= 2 /\ dir_results[1].err = NoExc) =>
           /\ dir_results[2].err = NoExc
           /\ dir_results[2].path = dir_results[1].path
           /\ dir_results[2].after = dir_results[2].before

\* the first call created directories for a one-digit month, the second call
\* returned the same path
C14_Witness ==
    /\ Len(dir_results) = 2
    /\ dir_results[1].err = NoExc
    /\ dir_results[1].after # dir_results[1].before
    /\ dir_results[1].date.month < 10
    /\ dir_results[2].path = dir_results[1].path

\* C15: if a segment of the day's path exists as a non-directory, or the
\* creation of a directory is refused, create_backup_directory raises, the run
\* neither connects nor backs up, and the failure notification is sent.
C15_ObstructedDirectoryFails ==
    (calls["create_backup_directory"] > 0 /\ obstructed) =>
        /\ failedStep = "create_backup_directory"
        /\ calls["connect_to_sql_server"] = 0
        /\ calls["backup_database"] = 0
        /\ RunOver => sent = <<failure_message(database, ErrorOf("create_backup_directory"))>>

\* C16: whenever the backup statement completed and produced an artifact,
\* the notification of that run is the success notification with the path of
\* the artifact; such a run never reports failure.
C16_ArtifactMeansSuccess ==
    artifact # None =>
        /\ \A i \in 1..Len(sent) : sent[i] = success_message(database, artifact)
        /\ RunOver => sent = <<success_message(database, artifact)>>

\* C17: every started run reaches its notification, and from its
\* notification returns to Idle, whichever step failed and whether or not the
\* transport delivered the message.
C17_RunTerminates ==
    /\ (jobPc = "Preparing") ~> (jobPc \in {"NotifyingSuccess", "NotifyingFailure"})
    /\ (jobPc \in {"NotifyingSuccess", "NotifyingFailure"}) ~> (jobPc = "Idle")

\* a run whose connect failed and whose failure notification was not
\* delivered is back at Idle
C17_Witness ==
    /\ jobPc = "Idle"
    /\ failedStep = "connect_to_sql_server"
    /\ Len(sent) = 1
    /\ delivered = 0
    /\ Polling

\* the date digits of the timestamp in the artifact's file name, and the
\* digits of the three date segments of its directory
ArtifactFileDate == artifact[Len(artifact)][3][1]
ArtifactDirDate == artifact[2] \o artifact[3] \o artifact[4]

\* C19: the YYYYMMDD of the artifact's file name equals the YYYY/MM/DD of the
\* directory that create_backup_directory chose in the same run.
C19_ArtifactInDirectoryOfItsDate ==
    artifact # None => ArtifactFileDate = ArtifactDirDate

\* C18: whichever step fails, the handler can build the failure
\* notification: the names it reads are bound before the first fallible step
\* runs, it never raises for an unbound name, and the failed run ends with its
\* failure notification sent.
C18_HandlerNamesBound ==
    /\ jobPc \in {"Preparing", "NotifyingFailure"} => HandlerNames \subseteq locals
    /\ exc # UnboundLocalError
    /\ (RunOver /\ failedStep # "none") =>
           (Len(sent) = 1 /\ sent[1].subject = FailureSubject)

\* the handler is entered from the first fallible step with its names bound
C18_Witness ==
    /\ jobPc = "NotifyingFailure"
    /\ failedStep = "create_backup_directory"
    /\ HandlerNames \subseteq locals
    /\ "connection" \notin locals

====
